---------------------------- MODULE Spec2Model ----------------------------
(***************************************************************************)
(* A model of src/app.py: the HistoryHandler request handler (do_GET,      *)
(* do_POST), its template helper and its file-backed post store            *)
(* (_load_posts, _save_posts over posts.json).                             *)
(*                                                                         *)
(* Text is modelled at the level of its lexical tokens: posts.json is a    *)
(* sequence of JSON tokens, a character string is a sequence of one-       *)
(* character strings, and an urlencoded form body is the sequence of its   *)
(* name=value pairs with the values still encoded ('+' stands for a        *)
(* space).  json.dump, json.load, parse_qs and str.strip are computed on   *)
(* these sequences.                                                        *)
(*                                                                         *)
(* The objects of posts.json carry their keys in the order id, title,      *)
(* content, any of which may be missing; an id is a natural number.  The   *)
(* template files are taken to exist.  A handler that raises sends no      *)
(* response: its status is 0 and the exception is recorded.                *)
(***************************************************************************)
EXTENDS Integers, Sequences, FiniteSets, TLC

VARIABLES
    file,       \* posts.json: whether it exists, and its content
    before,     \* posts.json as it was when the current request arrived
    req,        \* the request being handled (NoRequest between requests)
    resp,       \* what the handler sent back for req
    page,       \* the body written to wfile by do_GET
    posts,      \* the handler's local `posts` after _load_posts / append
    phase,      \* "idle": serve_forever waits; "answered": handler returned
    threads,    \* the handler threads of the concurrent server
    lastWriter  \* the thread whose _save_posts closed posts.json last

vars == <<file, before, req, resp, page, posts, phase, threads, lastWriter>>

\* The number of posts a store is allowed to grow to.
MaxPosts == 3

-----------------------------------------------------------------------------
(* Characters and strings                                                  *)

Space == " "

RECURSIVE lstrip(_)
lstrip(s) ==
    IF s # <<>> /\ Head(s) = Space THEN lstrip(Tail(s)) ELSE s

RECURSIVE rstrip(_)
rstrip(s) ==
    IF s # <<>> /\ s[Len(s)] = Space THEN rstrip(SubSeq(s, 1, Len(s) - 1)) ELSE s

\* Only the leading whitespace removed.
strip_leading(s) == lstrip(s)

\* str.strip(): leading and trailing whitespace removed.
strip(s) == rstrip(lstrip(s))

-----------------------------------------------------------------------------
(* posts.json as a sequence of JSON tokens                                 *)

Tok(k, n, s) == [k |-> k, n |-> n, s |-> s]
LBracket == Tok("[", 0, <<>>)
RBracket == Tok("]", 0, <<>>)
LBrace   == Tok("{", 0, <<>>)
RBrace   == Tok("}", 0, <<>>)
Key(name) == Tok("key", 0, <<name>>)
Num(n)    == Tok("num", n, <<>>)
Str(s)    == Tok("str", 0, s)
\* A byte that is not valid UTF-8.
BadByte  == Tok("bad", 0, <<>>)

\* dict.get(key, default)
dict_get(p, key, default) == IF key \in DOMAIN p THEN p[key] ELSE default

\* One post object as json.dump writes it; keys in the order id, title, content.
DumpObject(p) ==
    <<LBrace>>
    \o (IF "id" \in DOMAIN p THEN <<Key("id"), Num(p["id"])>> ELSE <<>>)
    \o (IF "title" \in DOMAIN p THEN <<Key("title"), Str(p["title"])>> ELSE <<>>)
    \o (IF "content" \in DOMAIN p THEN <<Key("content"), Str(p["content"])>> ELSE <<>>)
    \o <<RBrace>>

RECURSIVE DumpObjects(_)
DumpObjects(ps) ==
    IF ps = <<>> THEN <<>> ELSE DumpObject(Head(ps)) \o DumpObjects(Tail(ps))

\* json.dump(posts, f, ensure_ascii=False, indent=2)
json_dump(ps) == <<LBracket>> \o DumpObjects(ps) \o <<RBracket>>

\* The values json.load can return here, and its failures.
ListValue(items) == [raised |-> "", list |-> TRUE, items |-> items, num |-> 0]
NumberValue(n)   == [raised |-> "", list |-> FALSE, items |-> <<>>, num |-> n]
Raised(e)        == [raised |-> e, list |-> FALSE, items |-> <<>>, num |-> 0]

HasMember(toks, j, name, kind) ==
    /\ j + 1 <= Len(toks)
    /\ toks[j] = Key(name)
    /\ toks[j + 1].k = kind

\* The object that starts at toks[i]: whether one is there, the dict, and the
\* index after its closing brace.
ObjectAt(toks, i) ==
    LET j1   == i + 1
        hasI == HasMember(toks, j1, "id", "num")
        j2   == IF hasI THEN j1 + 2 ELSE j1
        hasT == HasMember(toks, j2, "title", "str")
        j3   == IF hasT THEN j2 + 2 ELSE j2
        hasC == HasMember(toks, j3, "content", "str")
        j4   == IF hasC THEN j3 + 2 ELSE j3
        keys == (IF hasI THEN {"id"} ELSE {})
                \cup (IF hasT THEN {"title"} ELSE {})
                \cup (IF hasC THEN {"content"} ELSE {})
    IN  [ok   |-> /\ i <= Len(toks) /\ toks[i] = LBrace
                  /\ j4 <= Len(toks) /\ toks[j4] = RBrace,
         obj  |-> [key \in keys |->
                     IF key = "id" THEN toks[j1 + 1].n
                     ELSE IF key = "title" THEN toks[j2 + 1].s
                     ELSE toks[j3 + 1].s],
         next |-> j4 + 1]

RECURSIVE ParseObjects(_, _, _)
\* The objects of toks from index i up to the closing bracket, appended to acc.
ParseObjects(toks, i, acc) ==
    IF i = Len(toks)
    THEN IF toks[i] = RBracket THEN ListValue(acc) ELSE Raised("JSONDecodeError")
    ELSE LET o == ObjectAt(toks, i)
         IN  IF o.ok /\ o.next <= Len(toks)
             THEN ParseObjects(toks, o.next, Append(acc, o.obj))
             ELSE Raised("JSONDecodeError")

\* json.load(f) on a file opened with encoding='utf-8': f.read() decodes the
\* whole file first, then the text is parsed.
json_load(toks) ==
    IF \E i \in 1..Len(toks) : toks[i] = BadByte THEN Raised("UnicodeDecodeError")
    ELSE IF Len(toks) = 1 /\ toks[1].k = "num" THEN NumberValue(toks[1].n)
    ELSE IF Len(toks) >= 2 /\ toks[1] = LBracket THEN ParseObjects(toks, 2, <<>>)
    ELSE Raised("JSONDecodeError")

Absent == [exists |-> FALSE, text |-> <<>>]
FileWith(toks) == [exists |-> TRUE, text |-> toks]

\* HistoryHandler._load_posts
_load_posts(f) ==
    IF ~f.exists THEN ListValue(<<>>)
    ELSE LET v == json_load(f.text)
         IN  IF v.raised = "JSONDecodeError" THEN ListValue(<<>>) ELSE v

\* Bytes left in the file behind a shorter text written over a longer one.
Junk(n) == Tok("junk", n, <<>>)

RECURSIVE Size(_)
\* The length of a text; a string counts its characters, any other token 1.
Size(toks) ==
    IF toks = <<>> THEN 0
    ELSE (CASE Head(toks).k = "str"  -> Len(Head(toks).s)
            [] Head(toks).k = "junk" -> Head(toks).n
            [] OTHER                 -> 1)
         + Size(Tail(toks))

\* open(posts_file, 'w'): the file is created or truncated.
open_w(f) == FileWith(<<>>)

\* The text written from the end of the file.
write_at_end(f, toks) == FileWith(f.text \o toks)

\* The buffered text of a file opened with 'w' is written from offset 0 when
\* the file is closed; what the file holds beyond it stays.
write_close(f, toks) ==
    IF Size(f.text) > Size(toks)
    THEN FileWith(toks \o <<Junk(Size(f.text) - Size(toks))>>)
    ELSE FileWith(toks)

\* The file opened with 'a': the dump lands behind the previous content.
_save_posts_appending(f, ps) == FileWith(f.text \o json_dump(ps))

\* Only the newest post written.
_save_posts_newest(f, ps) == FileWith(json_dump(<<ps[Len(ps)]>>))

\* HistoryHandler._save_posts
_save_posts(f, ps) == write_close(open_w(f), json_dump(ps))

-----------------------------------------------------------------------------
(* Requests                                                                *)

\* The longest form body, in name=value pairs.
MaxFields == 2

Field(name, value) == [name |-> name, value |-> value]

\* Encoded field values: empty, a lone '+', plain text, text next to '+'.
TitleValues == {<<>>, <<"+">>, <<"T">>, <<"C">>, <<"+", "T", "+">>}
ContentValues == {<<>>, <<"+">>, <<"C">>, <<"C", "+">>}
FormFields ==
    {Field("title", v) : v \in TitleValues}
    \cup {Field("content", v) : v \in ContentValues}

RECURSIVE SeqsUpTo(_, _)
SeqsUpTo(S, n) ==
    IF n = 0 THEN {<<>>}
    ELSE LET shorter == SeqsUpTo(S, n - 1)
         IN  shorter \cup {Append(q, x) : q \in shorter, x \in S}

FormBodies == SeqsUpTo(FormFields, MaxFields)

SampleBody == <<Field("title", <<"T">>), Field("content", <<"C">>)>>

\* Bodies that repeat the title field.
RepeatedBodies ==
    {<<Field("title", v), Field("title", w), Field("content", <<"C">>)>> :
        v, w \in {<<>>, <<"+">>, <<"T">>, <<"C">>}}

\* A request as the handler sees it: self.path is path, plus "?..." when query;
\* cl is the Content-Length header ("exact": the length of the body sent);
\* utf8 tells whether the body's bytes are valid UTF-8, fields is then its
\* text; static tells whether a file of the working directory matches path.
Request(method, path, query, cl, utf8, fields, static) ==
    [method |-> method, path |-> path, query |-> query, cl |-> cl,
     utf8 |-> utf8, fields |-> fields, static |-> static]

NoRequest == Request("", "", FALSE, "absent", TRUE, <<>>, FALSE)

DynamicPaths == {"/", "/section1", "/section2", "/section3", "/blog", "/admin/new_post"}

GetRequests ==
    {Request("GET", p, q, "absent", TRUE, <<>>, FALSE) :
        p \in DynamicPaths, q \in BOOLEAN}
    \cup {Request("GET", "/style.css", q, "absent", TRUE, <<>>, s) :
        q \in BOOLEAN, s \in BOOLEAN}

PostRequests ==
    {Request("POST", "/admin/new_post", FALSE, "exact", TRUE, b, FALSE) :
        b \in FormBodies \cup RepeatedBodies}
    \cup {Request("POST", "/admin/new_post", FALSE, "exact", FALSE, <<>>, FALSE)}
    \cup {Request("POST", "/admin/new_post", FALSE, c, u, SampleBody, FALSE) :
        c \in {"absent", "invalid"}, u \in BOOLEAN}
    \cup {Request("POST", "/admin/new_post", TRUE, "exact", TRUE, b, FALSE) :
        b \in {<<>>, SampleBody}}
    \cup {Request("POST", "/blog", q, "exact", TRUE, b, FALSE) :
        q \in BOOLEAN, b \in {<<>>, SampleBody}}

-----------------------------------------------------------------------------
(* Form parsing                                                            *)

\* urllib.parse.unquote_plus on a value: '+' is a space.
unquote_plus(raw) == [i \in 1..Len(raw) |-> IF raw[i] = "+" THEN Space ELSE raw[i]]

RECURSIVE ValuesOf(_, _)
\* parse_qs(post_data).get(name, []): the decoded values of the pairs called
\* name, in order; a pair with an empty value is dropped by parse_qs.
ValuesOf(fields, name) ==
    IF fields = <<>> THEN <<>>
    ELSE LET f == Head(fields)
         IN  (IF f.name = name /\ Len(f.value) > 0
              THEN <<unquote_plus(f.value)>> ELSE <<>>)
             \o ValuesOf(Tail(fields), name)

Form(raised, valid, title, content) ==
    [raised |-> raised, valid |-> valid, title |-> title, content |-> content]

\* do_POST from reading Content-Length to the test of title and content_text.
ReadForm(r) ==
    IF r.cl = "invalid" THEN Form("ValueError", FALSE, <<>>, <<>>)
    ELSE IF r.cl = "exact" /\ ~r.utf8 THEN Form("UnicodeDecodeError", FALSE, <<>>, <<>>)
    ELSE LET post_data    == IF r.cl = "exact" THEN r.fields ELSE <<>>
             title_list   == ValuesOf(post_data, "title")
             content_list == ValuesOf(post_data, "content")
         IN  IF title_list # <<>> /\ content_list # <<>>
             THEN LET title        == strip(title_list[1])
                      content_text == strip(content_list[1])
                  IN  Form("", title # <<>> /\ content_text # <<>>, title, content_text)
             ELSE Form("", FALSE, <<>>, <<>>)

-----------------------------------------------------------------------------
(* The blog store as do_POST uses it                                       *)

Max(a, b) == IF a >= b THEN a ELSE b

RECURSIVE MaxId(_)
\* max([p.get('id', 0) for p in posts], default=0)
MaxId(ps) == IF ps = <<>> THEN 0 ELSE Max(dict_get(Head(ps), "id", 0), MaxId(Tail(ps)))

\* The id without the + 1.
next_id_stale(ps) == MaxId(ps)

next_id(ps) == MaxId(ps) + 1

Post(id, title, content) == [id |-> id, title |-> title, content |-> content]

\* posts.append({'id': next_id, 'title': title, 'content': content_text})
AppendPost(ps, form) == Append(ps, Post(next_id(ps), form.title, form.content))

-----------------------------------------------------------------------------
(* Responses and pages                                                     *)

\* status 0: no response was sent, the handler raised `error`.
Response(status, location, content_type, error) ==
    [status |-> status, location |-> location,
     content_type |-> content_type, error |-> error]

NoResponse    == Response(0, "", "", "")
Failure(e)    == Response(0, "", "", e)
SeeOther      == Response(303, "/blog", "", "")
NotFound      == Response(404, "", "", "")
\* send_error(404) of the base handler: an HTML error page goes with it.
ErrorNotFound == Response(404, "", "text/html;charset=utf-8", "")
OkHtml        == Response(200, "", "text/html; charset=utf-8", "")
OkStatic      == Response(200, "", "guessed from the file name", "")

\* The value of the 'posts' placeholder: the blocks of the posts, or the
\* message shown when there are none.
Html(empty, blocks) == [empty |-> empty, blocks |-> blocks]
Block(p) == [title |-> dict_get(p, "title", <<>>), content |-> dict_get(p, "content", <<>>)]
NoHtml == Html(FALSE, <<>>)
EmptyMessage == "<p>No hay posts todavía. ¡Agrega uno nuevo!</p>"

Page(template, title, html, message) ==
    [template |-> template, title |-> title, html |-> html, message |-> message]
NoPage == Page("", "", NoHtml, "")
\* The page send_error(404) writes.
ErrorPage == Page("", "Error response", NoHtml, "Error code: 404")
\* The bytes of the file of the working directory that matches path.
StaticPage(path) == Page(path, "", NoHtml, "")

\* HistoryHandler._render_template: the named template with {{title}} and
\* {{posts}} replaced by the values of the context.
_render_template(template_name, title, html) ==
    Page(template_name, title, html, IF html.empty THEN EmptyMessage ELSE "")

TemplateOf(path) ==
    CASE path = "/"         -> "home_static.html"
      [] path = "/section1" -> "section1_static.html"
      [] path = "/section2" -> "section2_static.html"
      [] path = "/section3" -> "section3_static.html"
      [] path = "/blog"     -> "blog_static.html"
      [] OTHER              -> "new_post_static.html"

TitleOf(path) ==
    CASE path = "/"         -> "Principal"
      [] path = "/section1" -> "Sección 1"
      [] path = "/section2" -> "Sección 2"
      [] path = "/section3" -> "Sección 3"
      [] path = "/blog"     -> "Blog"
      [] OTHER              -> "Nuevo Post"

RECURSIVE InsertDesc(_, _)
\* p put into s, which is in descending id order, behind the posts whose id
\* is not smaller.
InsertDesc(s, p) ==
    IF s = <<>> THEN <<p>>
    ELSE IF dict_get(Head(s), "id", 0) >= dict_get(p, "id", 0)
         THEN <<Head(s)>> \o InsertDesc(Tail(s), p)
         ELSE <<p>> \o s

\* The posts in their stored order.
posts_unsorted(ps) == ps

RECURSIVE posts_sorted(_)
\* sorted(posts, key=lambda p: p.get('id', 0), reverse=True); the sort is
\* stable, posts of equal id keep their order.
posts_sorted(ps) ==
    IF ps = <<>> THEN <<>>
    ELSE InsertDesc(posts_sorted(SubSeq(ps, 1, Len(ps) - 1)), ps[Len(ps)])

\* One <div class="post"> block per post, joined, or the message.
posts_html(ps) ==
    IF ps = <<>> THEN Html(TRUE, <<>>)
    ELSE Html(FALSE, [i \in 1..Len(ps) |-> Block(ps[i])])

-----------------------------------------------------------------------------
(* The handlers                                                            *)

Unset == Raised("unset")

Outcome(f, response, pg, ps) == [file |-> f, resp |-> response, page |-> pg, posts |-> ps]

\* do_GET writing the sorted posts back when it lists them.
GetOutcome_rewriting(f, r) ==
    LET loaded == _load_posts(f)
    IN  IF r.path = "/blog" /\ loaded.list
        THEN Outcome(_save_posts(f, posts_sorted(loaded.items)), OkHtml,
                     _render_template(TemplateOf(r.path), TitleOf(r.path),
                                      posts_html(posts_sorted(loaded.items))),
                     loaded)
        ELSE IF r.path \in DynamicPaths
        THEN Outcome(f, OkHtml,
                     _render_template(TemplateOf(r.path), TitleOf(r.path), NoHtml), Unset)
        ELSE IF r.static THEN Outcome(f, OkStatic, StaticPage(r.path), Unset)
        ELSE Outcome(f, ErrorNotFound, ErrorPage, Unset)

\* What do_GET does with request r when posts.json is f.
GetOutcome(f, r) ==
    IF r.path \in DynamicPaths
    THEN IF r.path = "/blog"
         THEN LET loaded == _load_posts(f)
              IN  IF loaded.raised # "" THEN Outcome(f, Failure(loaded.raised), NoPage, loaded)
                  ELSE IF ~loaded.list THEN Outcome(f, Failure("TypeError"), NoPage, loaded)
                  ELSE Outcome(f, OkHtml,
                               _render_template(TemplateOf(r.path), TitleOf(r.path),
                                                posts_html(posts_sorted(loaded.items))),
                               loaded)
         ELSE Outcome(f, OkHtml,
                      _render_template(TemplateOf(r.path), TitleOf(r.path), NoHtml),
                      Unset)
    ELSE \* super().do_GET(): a file of the working directory, or not found
         IF r.static THEN Outcome(f, OkStatic, StaticPage(r.path), Unset)
         ELSE Outcome(f, ErrorNotFound, ErrorPage, Unset)

\* What do_POST does with request r when posts.json is f.
PostOutcome(f, r) ==
    IF r.path = "/admin/new_post" /\ ~r.query
    THEN LET form == ReadForm(r)
         IN  IF form.raised # "" THEN Outcome(f, Failure(form.raised), NoPage, Unset)
             ELSE IF ~form.valid THEN Outcome(f, SeeOther, NoPage, Unset)
             ELSE LET loaded == _load_posts(f)
                  IN  IF loaded.raised # ""
                      THEN Outcome(f, Failure(loaded.raised), NoPage, loaded)
                      ELSE IF ~loaded.list
                      THEN Outcome(f, Failure("TypeError"), NoPage, loaded)
                      ELSE LET ps == AppendPost(loaded.items, form)
                           IN  Outcome(_save_posts(f, ps), SeeOther, NoPage, ListValue(ps))
    ELSE Outcome(f, NotFound, NoPage, Unset)

Threads == {1, 2}

Thread(pc, r, form, ps, response) ==
    [pc |-> pc, req |-> r, form |-> form, posts |-> ps, resp |-> response]
IdleThread == Thread("idle", NoRequest, Form("", FALSE, <<>>, <<>>), <<>>, NoResponse)

Handled(r, out) ==
    /\ phase = "idle"
    /\ out.posts.list => Len(out.posts.items) <= MaxPosts
    /\ phase' = "answered"
    /\ req' = r
    /\ before' = file
    /\ file' = out.file
    /\ resp' = out.resp
    /\ page' = out.page
    /\ posts' = out.posts
    /\ UNCHANGED <<threads, lastWriter>>

\* HistoryHandler.do_GET
do_GET(r) == Handled(r, GetOutcome(file, r))

\* HistoryHandler.do_POST
do_POST(r) == Handled(r, PostOutcome(file, r))

\* The handler has returned; HTTPServer closes the request and serves the next.
serve_forever ==
    /\ phase = "answered"
    /\ phase' = "idle"
    /\ req' = NoRequest
    /\ before' = file
    /\ resp' = NoResponse
    /\ page' = NoPage
    /\ posts' = Unset
    /\ UNCHANGED <<file, threads, lastWriter>>

GetRequest == \E r \in GetRequests : do_GET(r)
PostRequest == \E r \in PostRequests : do_POST(r)

InitHandler ==
    /\ before = file
    /\ req = NoRequest
    /\ resp = NoResponse
    /\ page = NoPage
    /\ posts = Unset
    /\ phase = "idle"
    /\ threads = [t \in Threads |-> IdleThread]
    /\ lastWriter = 0

\* A fresh deployment: posts.json does not exist yet, or holds no post.
Init ==
    /\ file \in {Absent, FileWith(json_dump(<<>>))}
    /\ InitHandler

Next == GetRequest \/ PostRequest \/ serve_forever

\* run_server: one HTTPServer, requests handled one after the other.
Spec == Init /\ [][Next]_vars

-----------------------------------------------------------------------------
(* Any content of posts.json                                               *)

StoredPost(i, id) ==
    CASE i = 1 -> Post(id, <<"T">>, <<"C">>)
      [] i = 2 -> Post(id, <<"C">>, <<"T">>)
      [] OTHER -> Post(id, <<"T">>, <<"T">>)

StoredList(ids) == [i \in 1..Len(ids) |-> StoredPost(i, ids[i])]

\* A post that lacks its id.
Untagged == [title |-> <<"C">>, content |-> <<"C">>]

\* posts.json as a deployment may find it: missing, empty, cut short, not
\* UTF-8, JSON that is no list, and lists of posts in any order of ids.
StoredFiles ==
    {Absent, FileWith(<<>>), FileWith(<<LBracket, LBrace>>), FileWith(<<BadByte>>),
     FileWith(<<Num(42)>>)}
    \cup {FileWith(json_dump(StoredList(ids))) :
            ids \in {<<>>, <<1>>, <<2, 1>>, <<1, 3, 2>>, <<2, 2>>, <<2, 2, 3>>}}
    \cup {FileWith(json_dump(<<Untagged>>)),
          FileWith(json_dump(<<Untagged, StoredPost(2, 1)>>))}

InitStore ==
    /\ file \in StoredFiles
    /\ InitHandler

\* The sequential server started on any posts.json.
SpecStore == InitStore /\ [][Next]_vars

-----------------------------------------------------------------------------
(* The handler on a server that runs requests on concurrent threads        *)

\* Submissions of a title and a content: two that pass the test of title and
\* content_text, one whose title is blank.
ConcRequests ==
    {Request("POST", "/admin/new_post", FALSE, "exact", TRUE,
             <<Field("title", v), Field("content", <<"C">>)>>, FALSE) :
        v \in {<<"T">>, <<"C">>, <<"+">>}}

Busy == {t \in Threads : threads[t].pc \in {"load", "open", "dump"}}

\* do_POST up to the test of title and content_text.
Accept(t, r) ==
    /\ threads[t].pc = "idle"
    /\ LET loaded == _load_posts(file)
       IN  loaded.list /\ Len(loaded.items) + Cardinality(Busy) < MaxPosts
    /\ LET form == ReadForm(r)
       IN  threads' = [threads EXCEPT ![t] =
               Thread(IF form.valid THEN "load" ELSE "respond", r, form, <<>>, NoResponse)]
    /\ UNCHANGED <<file, before, req, resp, page, posts, phase, lastWriter>>

\* posts = self._load_posts(), next_id, posts.append(...)
Load(t) ==
    /\ threads[t].pc = "load"
    /\ LET loaded == _load_posts(file)
       IN  /\ loaded.list
           /\ threads' = [threads EXCEPT
                  ![t].pc = "open",
                  ![t].posts = AppendPost(loaded.items, threads[t].form)]
    /\ UNCHANGED <<file, before, req, resp, page, posts, phase, lastWriter>>

\* _save_posts: open(posts_file, 'w')
Open(t) ==
    /\ threads[t].pc = "open"
    /\ file' = open_w(file)
    /\ threads' = [threads EXCEPT ![t].pc = "dump"]
    /\ UNCHANGED <<before, req, resp, page, posts, phase, lastWriter>>

\* _save_posts: json.dump and the close of the file
Dump(t) ==
    /\ threads[t].pc = "dump"
    /\ file' = write_close(file, json_dump(threads[t].posts))
    /\ lastWriter' = t
    /\ threads' = [threads EXCEPT ![t].pc = "respond"]
    /\ UNCHANGED <<before, req, resp, page, posts, phase>>

\* send_response(303), Location: /blog
Respond(t) ==
    /\ threads[t].pc = "respond"
    /\ threads' = [threads EXCEPT ![t].pc = "answered", ![t].resp = SeeOther]
    /\ UNCHANGED <<file, before, req, resp, page, posts, phase, lastWriter>>

Accepts == \E t \in Threads, r \in ConcRequests : Accept(t, r)
Loads == \E t \in Threads : Load(t)
Opens == \E t \in Threads : Open(t)
Dumps == \E t \in Threads : Dump(t)
Responds == \E t \in Threads : Respond(t)

NextConc == Accepts \/ Loads \/ Opens \/ Dumps \/ Responds

\* posts.json holds no post or one post when the two requests arrive.
InitConc ==
    /\ file \in {Absent, FileWith(json_dump(<<>>)), FileWith(json_dump(StoredList(<<1>>)))}
    /\ InitHandler

\* The handler under a server that gives every request its own thread: two
\* requests, each handled once by its thread.
SpecConc == InitConc /\ [][NextConc]_vars

-----------------------------------------------------------------------------
(* Properties                                                              *)

\* The stored collection: what a reader of posts.json gets as its posts.
StoredPosts(f) == LET v == _load_posts(f) IN IF v.list THEN v.items ELSE <<>>

IsPrefix(a, b) == Len(a) <= Len(b) /\ SubSeq(b, 1, Len(a)) = a

Front(q) == SubSeq(q, 1, Len(q) - 1)

Answered(method) == phase = "answered" /\ req.method = method

\* The form body the request delivers: the pairs of a body whose length the
\* Content-Length header gives; no pair when there is no such header or the
\* bytes are no text.
Body(r) == IF r.cl = "exact" /\ r.utf8 THEN r.fields ELSE <<>>

\* The values sent under name, decoded and trimmed.
Trimmed(r, name) ==
    LET b == Body(r)
    IN  [i \in {j \in 1..Len(b) : b[j].name = name} |->
            LET v == b[i].value
                decoded == [k \in 1..Len(v) |-> IF v[k] = "+" THEN " " ELSE v[k]]
                first == {k \in 1..Len(v) : decoded[k] # " "}
            IN  IF first = {} THEN <<>>
                ELSE LET lo == CHOOSE k \in first : \A m \in first : k <= m
                         hi == CHOOSE k \in first : \A m \in first : k >= m
                     IN  SubSeq(decoded, lo, hi)]

\* name is sent, and every value sent under it has text left after trimming.
Filled(r, name) ==
    LET t == Trimmed(r, name)
    IN  DOMAIN t # {} /\ \A i \in DOMAIN t : t[i] # <<>>

\* name is not sent, or no value sent under it has text left after trimming.
Blank(r, name) ==
    LET t == Trimmed(r, name) IN \A i \in DOMAIN t : t[i] = <<>>

FirstTrimmed(r, name) ==
    LET t == Trimmed(r, name)
    IN  t[CHOOSE i \in DOMAIN t : \A j \in DOMAIN t : i <= j]

ToCreationEndpoint(r) == r.path = "/admin/new_post" /\ ~r.query

Submission(r) ==
    /\ ToCreationEndpoint(r)
    /\ r.cl # "invalid"
    /\ Filled(r, "title")
    /\ Filled(r, "content")

\* C1: started on an empty or absent store and handling requests one after the
\* other, the ids of the stored posts are pairwise distinct, and a post created
\* by POST /admin/new_post has the id max(ids stored before the request) + 1,
\* or 1 when the store was empty.
C1_IdsUniqueAndNext ==
    LET now == StoredPosts(file)
        was == StoredPosts(before)
        ids == {was[i].id : i \in 1..Len(was)}
    IN  /\ \A i, j \in 1..Len(now) : i # j => now[i].id # now[j].id
        /\ (Answered("POST") /\ Len(now) > Len(was)) =>
              now[Len(now)].id =
                 IF ids = {} THEN 1
                 ELSE (CHOOSE m \in ids : \A n \in ids : m >= n) + 1

\* A third post has been created behind posts 1 and 2.
C1_Witness ==
    /\ Answered("POST")
    /\ Len(StoredPosts(before)) = 2
    /\ Len(StoredPosts(file)) = 3
    /\ StoredPosts(file)[3].id = 3

\* C2: a POST to /admin/new_post whose body sends a title and a content that
\* have text left after trimming appends exactly one post to the end of the
\* stored collection, made of the next id, the trimmed title and the trimmed
\* content, leaves the posts stored before in place, and is answered 303 with
\* Location /blog; on an empty store, title T and content C leave exactly the
\* post {id 1, title T, content C}.
C2_ValidPostAppends ==
    (Answered("POST") /\ Submission(req)) =>
        LET was == StoredPosts(before)
            now == StoredPosts(file)
        IN  /\ Len(now) = Len(was) + 1
            /\ Front(now) = was
            /\ now[Len(now)] = [id |-> now[Len(now)].id,
                                title |-> FirstTrimmed(req, "title"),
                                content |-> FirstTrimmed(req, "content")]
            /\ resp.status = 303 /\ resp.location = "/blog" /\ resp.error = ""
            /\ (was = <<>> /\ req.fields = SampleBody) =>
                  now = <<[id |-> 1, title |-> <<"T">>, content |-> <<"C">>]>>

\* A title sent as "+T+" has been stored as "T" behind an earlier post.
C2_Witness ==
    /\ Answered("POST")
    /\ Submission(req)
    /\ req.fields = <<Field("title", <<"+", "T", "+">>), Field("content", <<"C">>)>>
    /\ Len(StoredPosts(before)) = 1
    /\ StoredPosts(file)[2] = [id |-> 2, title |-> <<"T">>, content |-> <<"C">>]

\* C3: a POST to /admin/new_post whose title or content is missing, empty or
\* whitespace-only leaves posts.json as it was and is still answered 303 with
\* Location /blog, with no error.
C3_BlankPostIgnored ==
    (/\ Answered("POST")
     /\ ToCreationEndpoint(req)
     /\ req.cl # "invalid"
     /\ (Blank(req, "title") \/ Blank(req, "content"))) =>
        /\ file = before
        /\ resp.status = 303 /\ resp.location = "/blog" /\ resp.error = ""

\* C4: every POST to /admin/new_post is answered 303 with Location /blog,
\* whether or not a post was added; every POST to another path is answered 404
\* and leaves the stored collection as it was.
C4_PostStatus ==
    Answered("POST") =>
        IF ToCreationEndpoint(req)
        THEN resp.status = 303 /\ resp.location = "/blog"
        ELSE resp.status = 404 /\ file = before

\* C5: a stored post is never updated or deleted: over every step of the
\* sequential server the stored collection keeps its posts, unchanged and in
\* place, and only grows at its end.
C5_PostsOnlyAppended ==
    [][IsPrefix(StoredPosts(file), StoredPosts(file'))]_vars

\* A post has been appended to a store that held posts, which are still there.
C5_Witness ==
    /\ Answered("POST")
    /\ Len(StoredPosts(before)) >= 2
    /\ Len(StoredPosts(file)) = Len(StoredPosts(before)) + 1
    /\ IsPrefix(StoredPosts(before), StoredPosts(file))

\* What posts.json holds is no JSON text, or not even text.
FailsToParse(f) == f.exists /\ json_load(f.text).raised # ""

LoadsPosts(r) ==
    \/ r.method = "GET" /\ r.path = "/blog"
    \/ r.method = "POST" /\ Submission(r)

\* C6: _load_posts returns an empty collection when posts.json is absent or
\* its content fails to parse, no exception reaches the caller, and the
\* request that loaded is handled as if the store were empty.
C6_UnreadableStoreIsEmpty ==
    (/\ phase = "answered"
     /\ LoadsPosts(req)
     /\ (~before.exists \/ FailsToParse(before))) =>
        /\ _load_posts(before) = ListValue(<<>>)
        /\ resp.error = ""
        /\ resp.status = (IF req.method = "GET" THEN 200 ELSE 303)
        /\ req.method = "GET" => page.html = Html(TRUE, <<>>)
        /\ req.method = "POST" => Len(StoredPosts(file)) = 1

InStore(p) == \E i \in 1..Len(StoredPosts(file)) : StoredPosts(file)[i] = p

\* The thread's request passed the test of title and content_text and has been
\* answered 303.
Created(t) ==
    /\ threads[t].pc = "answered"
    /\ threads[t].form.valid
    /\ threads[t].resp.status = 303

Submitted(t) == threads[t].posts[Len(threads[t].posts)]

\* C7: with two POSTs to /admin/new_post handled concurrently, posts.json
\* begins with the collection of the thread that saved last, whatever another
\* thread saved before; when both threads loaded the same collection and both
\* are answered 303, the store is that collection plus the post of the later
\* saver alone, the post of the earlier saver is lost.
C7_LastWriterWins ==
    /\ \A t \in Threads :
          (lastWriter = t /\ \A u \in Threads : threads[u].pc # "dump") =>
              IsPrefix(json_dump(threads[t].posts), file.text)
    /\ (/\ Created(1) /\ Created(2)
        /\ Front(threads[1].posts) = Front(threads[2].posts)) =>
          /\ StoredPosts(file) = threads[lastWriter].posts
          /\ Len(StoredPosts(file)) = Len(Front(threads[1].posts)) + 1

\* Both requests are answered 303, thread 1 submitted title T and thread 2
\* title C, and exactly one of the two posts is in the store.
C7_LostUpdate ==
    /\ Created(1) /\ Created(2)
    /\ threads[1].form.title = <<"T">>
    /\ threads[2].form.title = <<"C">>
    /\ InStore(Submitted(1)) # InStore(Submitted(2))
    /\ Len(StoredPosts(file)) = Len(threads[lastWriter].posts)

IdOf(p) == IF "id" \in DOMAIN p THEN p.id ELSE 0

\* C8: GET /blog renders one block per stored post, in descending order of id,
\* whatever the order of the posts in posts.json (ids 1,3,2 are rendered
\* 3,2,1).
C8_BlogDescending ==
    (Answered("GET") /\ req.path = "/blog" /\ _load_posts(before).list) =>
        LET ps == StoredPosts(before)
            n  == Len(ps)
            blocks == page.html.blocks
        IN  /\ resp.status = 200
            /\ Len(blocks) = n
            /\ \E order \in [1..n -> 1..n] :
                  /\ \A i, j \in 1..n : i # j => order[i] # order[j]
                  /\ \A i \in 1..n :
                        blocks[i] = [title |-> ps[order[i]].title,
                                     content |-> ps[order[i]].content]
                  /\ \A i \in 1..(n - 1) : IdOf(ps[order[i]]) >= IdOf(ps[order[i + 1]])

\* The store holds ids 1,3,2 in this order and the page shows 3,2,1.
C8_Witness ==
    /\ Answered("GET") /\ req.path = "/blog"
    /\ StoredPosts(before) = StoredList(<<1, 3, 2>>)
    /\ page.html.blocks = <<[title |-> <<"C">>, content |-> <<"T">>],
                            [title |-> <<"T">>, content |-> <<"T">>],
                            [title |-> <<"T">>, content |-> <<"C">>]>>

\* C9: loading what has been saved returns the collection saved, the same
\* posts with the same fields in the same order, and a save leaves nothing of
\* the previous content of posts.json: the file is what saving to an absent
\* file gives.
C9_SaveLoadRoundTrip ==
    /\ (Answered("POST") /\ posts.list /\ resp.status = 303) =>
          /\ _load_posts(file) = posts
          /\ StoredPosts(file) = Append(StoredPosts(before), posts.items[Len(posts.items)])
          /\ file = _save_posts(Absent, posts.items)
    /\ _load_posts(file).list =>
          _load_posts(_save_posts(file, StoredPosts(file))) = ListValue(StoredPosts(file))

\* A collection of three posts has been saved over a file that held two.
C9_Witness ==
    /\ Answered("POST") /\ posts.list /\ resp.status = 303
    /\ before = FileWith(json_dump(StoredList(<<2, 1>>)))
    /\ Len(posts.items) = 3
    /\ _load_posts(file) = posts

\* C10: no GET changes posts.json, whatever the path and whether posts.json is
\* absent, unparseable or a list of posts.
C10_GetLeavesStore ==
    Answered("GET") => file = before

\* GET /blog has been answered on a posts.json that does not exist, and it
\* still does not exist.
C10_Witness ==
    /\ Answered("GET") /\ req.path = "/blog"
    /\ resp.status = 200
    /\ ~before.exists
    /\ ~file.exists

=============================================================================
